---- MODULE Spec2Model ----
(***************************************************************************)
(* Model of imbalanced/datasets/generic.py: DatasetWrapper,                *)
(* PartitionedDataset and ResampledDataset, as one wrapper object, one     *)
(* partitioned view and one resampled view over externally supplied        *)
(* datasets.  Every method is one action; its outcome (returned value or   *)
(* raised exception) is recorded in ret.                                   *)
(***************************************************************************)
EXTENDS Integers, Sequences, FiniteSets, TLC

\* Largest length of an externally supplied dataset.
MaxLen == 4
\* Largest number of entries in one row of a supplied sample array.
MaxSamples == 1

\* Externally supplied datasets (instances of torch Dataset).
Bases == {"A", "B"}
\* An object that is not an instance of Dataset.
NotDataset == "obj"
\* Python's None for a dataset reference.
None == "None"

VARIABLES baseLen, w, pv, rv, ret

vars == <<baseLen, w, pv, rv, ret>>

----------------------------------------------------------------------------
\* Outcomes of a call: a returned value or a raised exception.

Return(op, arg, val) ==
  [op |-> op, arg |-> arg, ok |-> TRUE, err |-> "", val |-> val]

Raise(op, arg, err) ==
  [op |-> op, arg |-> arg, ok |-> FALSE, err |-> err, val |-> <<>>]

\* Result of an expression evaluation inside a method.
Value(v) == [ok |-> TRUE, err |-> "", val |-> v]
Error(e) == [ok |-> FALSE, err |-> e, val |-> <<>>]

\* Python sequence indexing on a list or numpy array: negative indices count
\* from the end, anything outside [-len, len) raises IndexError.
PyIndex(seq, i) ==
  IF i >= 0 /\ i < Len(seq) THEN Value(seq[i + 1])
  ELSE IF i < 0 /\ i >= -Len(seq) THEN Value(seq[Len(seq) + i + 1])
  ELSE Error("IndexError")

RECURSIVE SumSeq(_)
SumSeq(s) == IF s = <<>> THEN 0 ELSE Head(s) + SumSeq(Tail(s))

RECURSIVE MinSeq(_)
MinSeq(s) ==
  IF Len(s) = 1 THEN s[1]
  ELSE LET m == MinSeq(Tail(s)) IN IF s[1] < m THEN s[1] ELSE m

RECURSIVE MaxSeq(_)
MaxSeq(s) ==
  IF Len(s) = 1 THEN s[1]
  ELSE LET m == MaxSeq(Tail(s)) IN IF s[1] > m THEN s[1] ELSE m

\* numpy.cumsum
RECURSIVE CumSum(_)
CumSum(s) ==
  IF s = <<>> THEN <<>>
  ELSE LET n == Len(s) IN Append(CumSum(SubSeq(s, 1, n - 1)), SumSeq(s))

\* list.index(x) for x known to be in the list (0-based).
RECURSIVE ListIndex(_, _)
ListIndex(s, x) == IF Head(s) = x THEN 0 ELSE 1 + ListIndex(Tail(s), x)

InList(s, x) == \E i \in 1..Len(s) : s[i] = x

\* Python 3 round() of the non-negative rational num/den: nearest integer,
\* ties to the even one.
Round(num, den) ==
  LET q == num \div den
      r == num % den
  IN IF 2 * r < den THEN q
     ELSE IF 2 * r > den THEN q + 1
     ELSE IF q % 2 = 0 THEN q ELSE q + 1

----------------------------------------------------------------------------
\* DatasetWrapper

\* isinstance(dataset, Dataset): the external datasets and the two views.
IsDataset(d) == d \in Bases \cup {"pv", "rv"}

\* lock_dataset arguments: the two booleans and a non-boolean (None).
LockArgs == {"True", "False", "None"}

\* self._lock_dataset = True; if isinstance(lock_dataset, bool): ... = lock_dataset
LockFlag(lock_dataset) ==
  IF lock_dataset \in {"True", "False"} THEN lock_dataset = "True" ELSE TRUE

\* lock_dataset: bool = True, the lock a subclass gets from super().__init__(dataset).
\* Variant: an unlocked default.
DefaultLockFalse == "False"

DefaultLock == "True"

\* Variant: a setter that does not look at the lock.
DatasetSetterNoLock(cur, lock, dataset) ==
  IF ~IsDataset(dataset) THEN Error("AssertionError") ELSE Value(dataset)

\* The dataset setter applied to wrapper fields (current dataset, lock); the
\* lock is not read while no dataset has been set.
DatasetSetter(cur, lock, dataset) ==
  IF cur # None /\ lock THEN Error("AssertionError")
  ELSE IF ~IsDataset(dataset) THEN Error("AssertionError")
  ELSE Value(dataset)

\* DatasetWrapper.__init__
DatasetWrapper_init(dataset, lock_dataset) ==
  LET set == DatasetSetter(None, TRUE, dataset)
  IN IF ~set.ok THEN set
     ELSE Value([dataset |-> set.val, lock |-> LockFlag(lock_dataset)])

NoWrapper == [made |-> FALSE, dataset |-> None, lock |-> TRUE]

WrapperConstruct(dataset, lock_dataset) ==
  /\ ~w.made
  /\ LET r == DatasetWrapper_init(dataset, lock_dataset)
     IN IF r.ok
        THEN /\ w' = [made |-> TRUE, dataset |-> r.val.dataset,
                      lock |-> r.val.lock]
             /\ ret' = Return("w_init", <<dataset, lock_dataset>>, <<>>)
        ELSE /\ w' = w
             /\ ret' = Raise("w_init", <<dataset, lock_dataset>>, r.err)
  /\ UNCHANGED <<baseLen, pv, rv>>

WrapperSetDataset(dataset) ==
  /\ w.made
  /\ LET r == DatasetSetter(w.dataset, w.lock, dataset)
     IN IF r.ok
        THEN /\ w' = [w EXCEPT !.dataset = r.val]
             /\ ret' = Return("w_set", <<dataset>>, <<>>)
        ELSE /\ w' = w
             /\ ret' = Raise("w_set", <<dataset>>, r.err)
  /\ UNCHANGED <<baseLen, pv, rv>>

WrapperGetDataset ==
  /\ w.made
  /\ ret' = Return("w_get", <<>>, <<w.dataset>>)
  /\ UNCHANGED <<baseLen, w, pv, rv>>

----------------------------------------------------------------------------
\* Lengths of the datasets a wrapper can hold.

\* PartitionedDataset.__len__
PartitionedDataset_len == pv.sizes[pv.active + 1]

\* ResampledDataset.__len__
ResampledDataset_len == Len(rv.samples)

\* len(dataset)
DsLen(d) ==
  IF d \in Bases THEN baseLen[d]
  ELSE IF d = "pv" THEN PartitionedDataset_len
  ELSE ResampledDataset_len

\* Row i of an external dataset; rows are opaque, identified by (dataset, i).
\* Outside [0, length) the external dataset raises IndexError.
BaseGetItem(d, i) ==
  IF 0 <= i /\ i < baseLen[d] THEN Value(<<d, i>>) ELSE Error("IndexError")

RECURSIVE DsGetItem(_, _)

----------------------------------------------------------------------------
\* PartitionedDataset

\* A partitions argument: None, a non-dict object, or a dict given as its
\* keys in insertion order and its values nums[i] / den.
NoPartitions == [kind |-> "None", names |-> <<>>, nums |-> <<>>, den |-> 1]
NotDict == [kind |-> "list", names |-> <<>>, nums |-> <<>>, den |-> 1]
Dict(names, nums, den) ==
  [kind |-> "dict", names |-> names, nums |-> nums, den |-> den]

\* {'train': 0.64, 'val': 0.16, 'test': 0.2}
DefaultDen == 100
DefaultPartitions == Dict(<<"train", "val", "test">>, <<64, 16, 20>>, DefaultDen)

\* partitions = {name: round(fraction * len(dataset)) ...} when the values
\* sum to <= 1; otherwise the values are kept.
ConvertFractions(p, n) ==
  IF SumSeq(p.nums) <= p.den
  THEN Dict(p.names, [i \in 1..Len(p.nums) |-> Round(p.nums[i] * n, p.den)], 1)
  ELSE p

\* Variant: a name that is not a partition selects the first partition.
SetActivePartitionAnyName(names, partition) ==
  IF ~InList(names, partition) THEN Value(0)
  ELSE Value(ListIndex(names, partition))

\* assert partition in self._partition_names; index = names.index(partition)
SetActivePartition(names, partition) ==
  IF ~InList(names, partition) THEN Error("AssertionError")
  ELSE Value(ListIndex(names, partition))

\* 'train' if it is a partition name, else the first partition
InitialPartition(names) ==
  IF InList(names, "train") THEN "train" ELSE names[1]

\* The validation that precedes the conversion of fractions.
BasicValidation(p) ==
  /\ p.kind = "dict"
  /\ Len(p.names) >= 2
  /\ MinSeq(p.nums) > 0

\* The validation that follows it: integer sizes that sum to len(dataset).
FurtherValidation(p, n) ==
  /\ \A i \in 1..Len(p.nums) : p.nums[i] % p.den = 0
  /\ SumSeq(p.nums) = p.den * n

\* PartitionedDataset.__init__
PartitionedDataset_init(dataset, partitions) ==
  LET base == DatasetWrapper_init(dataset, DefaultLock)
      given == IF partitions.kind = "None" THEN DefaultPartitions
               ELSE partitions
  IN IF ~base.ok THEN base
     ELSE IF ~BasicValidation(given) THEN Error("AssertionError")
     ELSE LET p == ConvertFractions(given, DsLen(dataset))
          IN IF ~FurtherValidation(p, DsLen(dataset))
             THEN Error("AssertionError")
             ELSE LET sizes == [i \in 1..Len(p.nums) |-> p.nums[i] \div p.den]
                      act == SetActivePartition(p.names,
                                                InitialPartition(p.names))
                  IN Value([made |-> TRUE,
                            dataset |-> base.val.dataset,
                            lock |-> base.val.lock,
                            names |-> p.names,
                            sizes |-> sizes,
                            offsets |-> CumSum(sizes),
                            active |-> act.val])

\* PartitionedDataset.partitions: the dict {name: size} in stored order.
PartitionedDataset_partitions == Dict(pv.names, pv.sizes, 1)

\* The index handed to the wrapped dataset: offsets[active - 1] + idx, where
\* offsets is a numpy array, so that index -1 reads its last entry.
PartitionOffset(offsets, active) == PyIndex(offsets, active - 1).val

\* Variant: the bound test off by one.
PartitionInRangeInclusive(idx, size) == ~(idx > size)

\* if idx >= self._partition_sizes[self._active_partition_idx]: raise IndexError()
PartitionInRange(idx, size) == ~(idx >= size)

\* PartitionedDataset.__getitem__
PartitionedDataset_getitem(idx) ==
  IF ~PartitionInRange(idx, pv.sizes[pv.active + 1]) THEN Error("IndexError")
  ELSE DsGetItem(pv.dataset, PartitionOffset(pv.offsets, pv.active) + idx)

----------------------------------------------------------------------------
\* ResampledDataset

\* A samples argument: None, a non-array object, or a numpy array given by
\* its rows.
NoSamples == [kind |-> "None", rows |-> <<>>]
NotArray == [kind |-> "list", rows |-> <<>>]
Array(rows) == [kind |-> "ndarray", rows |-> rows]

\* ndarray.flatten(): the rows one after the other.
RECURSIVE Flatten(_)
Flatten(rows) == IF rows = <<>> THEN <<>> ELSE Head(rows) \o Flatten(Tail(rows))

\* np.arange(n, dtype=np.int), with np.int the alias of int
Arange(n) == [i \in 1..n |-> i - 1]

\* assert samples.max() < len(self.dataset)
SamplesBelow(samples, n) == MaxSeq(samples) < n

\* The samples setter: the array it stores, or the exception it raises.
\* min() and max() of an empty array raise ValueError.
SamplesSetter(dataset, samples) ==
  IF samples.kind # "ndarray" THEN Error("AssertionError")
  ELSE LET flat == Flatten(samples.rows)
       IN IF flat = <<>> THEN Error("ValueError")
          ELSE IF ~(MinSeq(flat) >= 0) THEN Error("AssertionError")
          ELSE IF ~SamplesBelow(flat, DsLen(dataset))
               THEN Error("AssertionError")
          ELSE Value(flat)

\* ResampledDataset.__init__
ResampledDataset_init(dataset, samples) ==
  LET base == DatasetWrapper_init(dataset, DefaultLock)
  IN IF ~base.ok THEN base
     ELSE LET given == IF samples.kind # "None" THEN samples
                       ELSE Array(<<Arange(DsLen(base.val.dataset))>>)
              set == SamplesSetter(base.val.dataset, given)
          IN IF ~set.ok THEN set
             ELSE Value([made |-> TRUE,
                         dataset |-> base.val.dataset,
                         lock |-> base.val.lock,
                         samples |-> set.val])

\* self._samples[idx] on the stored numpy array
SampleAt(samples, idx) == PyIndex(samples, idx)

\* ResampledDataset.__getitem__
ResampledDataset_getitem(idx) ==
  LET s == SampleAt(rv.samples, idx)
  IN IF ~s.ok THEN s ELSE DsGetItem(rv.dataset, s.val)

\* dataset[i] for any dataset a wrapper can hold
DsGetItem(d, i) ==
  IF d \in Bases THEN BaseGetItem(d, i)
  ELSE IF d = "pv" THEN PartitionedDataset_getitem(i)
  ELSE ResampledDataset_getitem(i)

----------------------------------------------------------------------------
\* Arguments the callers supply.

\* Names asked for: the three shortcut names and three others.
PartitionNames == {"train", "val", "test", "a", "b", "c"}

\* Key orders of the supplied dicts.
NameSeqs ==
  {<<"a">>, <<"a", "b">>, <<"val", "train">>,
   <<"a", "b", "c">>, <<"train", "val", "test">>}

\* Denominators of the supplied values: integers and quarters.
Dens == {1, 4}

PartitionArgs ==
  {NoPartitions, NotDict}
  \cup UNION {{Dict(ns, nums, den) :
                 nums \in [1..Len(ns) -> 0..MaxLen], den \in Dens} :
              ns \in NameSeqs}

\* Integer dicts of two and three partitions, for a view that gets wrapped.
WrappedPartitionArgs ==
  UNION {{Dict(ns, nums, 1) : nums \in [1..Len(ns) -> 1..MaxLen]} :
         ns \in {<<"a", "b">>, <<"a", "b", "c">>}}

\* Sample indices supplied: one below and one above every valid index.
SampleVals == -1..MaxLen

\* Arrays of shape (1, n) for n <= MaxSamples, and of shape (2, 1).
SampleArgs ==
  {NoSamples, NotArray}
  \cup {Array(<<row>>) :
          row \in UNION {[1..n -> SampleVals] : n \in 0..MaxSamples}}
  \cup {Array(<<<<x>>, <<y>>>>) : x, y \in SampleVals}

\* Indices asked for, on both sides of every valid range.
Indices == (-(MaxLen + 1))..(MaxLen + 1)

----------------------------------------------------------------------------
\* The partitioned view

NoPV ==
  [made |-> FALSE, dataset |-> None, lock |-> TRUE, names |-> <<>>,
   sizes |-> <<>>, offsets |-> <<>>, active |-> 0]

PVConstruct(dataset, partitions) ==
  /\ ~pv.made
  /\ LET r == PartitionedDataset_init(dataset, partitions)
         arg == <<dataset, partitions.kind>>
     IN IF r.ok
        THEN pv' = r.val /\ ret' = Return("pv_init", arg, <<>>)
        ELSE pv' = pv /\ ret' = Raise("pv_init", arg, r.err)
  /\ UNCHANGED <<baseLen, w, rv>>

\* PartitionedDataset.set_active_partition as a call that returns val.
PVActivate(op, partition, val) ==
  /\ pv.made
  /\ LET r == SetActivePartition(pv.names, partition)
     IN IF r.ok
        THEN /\ pv' = [pv EXCEPT !.active = r.val]
             /\ ret' = Return(op, <<partition>>, val)
        ELSE /\ pv' = pv
             /\ ret' = Raise(op, <<partition>>, r.err)
  /\ UNCHANGED <<baseLen, w, rv>>

PVSetActive(partition) == PVActivate("pv_set_active", partition, <<>>)

\* The shortcuts return the view itself.
PVTrain == PVActivate("pv_train", "train", <<"pv">>)
PVVal == PVActivate("pv_val", "val", <<"pv">>)
PVTest == PVActivate("pv_test", "test", <<"pv">>)

PVActivePartition ==
  /\ pv.made
  /\ ret' = Return("pv_active", <<>>, <<pv.names[pv.active + 1]>>)
  /\ UNCHANGED <<baseLen, w, pv, rv>>

PVPartitions ==
  /\ pv.made
  /\ ret' = Return("pv_partitions", <<>>, <<PartitionedDataset_partitions>>)
  /\ UNCHANGED <<baseLen, w, pv, rv>>

PVGetItem(idx) ==
  /\ pv.made
  /\ LET r == PartitionedDataset_getitem(idx)
     IN ret' = IF r.ok THEN Return("pv_getitem", <<idx>>, r.val)
               ELSE Raise("pv_getitem", <<idx>>, r.err)
  /\ UNCHANGED <<baseLen, w, pv, rv>>

PVLen ==
  /\ pv.made
  /\ ret' = Return("pv_len", <<>>, <<PartitionedDataset_len>>)
  /\ UNCHANGED <<baseLen, w, pv, rv>>

\* PartitionedDataset.c_args
PVCArgs ==
  /\ pv.made
  /\ ret' = Return("pv_c_args", <<>>,
                   <<pv.dataset, PartitionedDataset_partitions>>)
  /\ UNCHANGED <<baseLen, w, pv, rv>>

PVSetDataset(dataset) ==
  /\ pv.made
  /\ LET r == DatasetSetter(pv.dataset, pv.lock, dataset)
     IN IF r.ok
        THEN /\ pv' = [pv EXCEPT !.dataset = r.val]
             /\ ret' = Return("pv_set", <<dataset>>, <<>>)
        ELSE /\ pv' = pv
             /\ ret' = Raise("pv_set", <<dataset>>, r.err)
  /\ UNCHANGED <<baseLen, w, rv>>

PVGetDataset ==
  /\ pv.made
  /\ ret' = Return("pv_get", <<>>, <<pv.dataset>>)
  /\ UNCHANGED <<baseLen, w, pv, rv>>

----------------------------------------------------------------------------
\* The resampled view

NoRV == [made |-> FALSE, dataset |-> None, lock |-> TRUE, samples |-> <<>>]

\* Datasets a new resampled view is given: an external dataset, an object
\* that is no dataset, and the partitioned view once it exists.
RVDatasetArgs ==
  {"A", NotDataset}
  \cup (IF pv.made /\ pv.dataset \in Bases THEN {"pv"} ELSE {})

RVConstruct(dataset, samples) ==
  /\ ~rv.made
  /\ LET r == ResampledDataset_init(dataset, samples)
         arg == <<dataset, samples.kind>>
     IN IF r.ok
        THEN rv' = r.val /\ ret' = Return("rv_init", arg, <<>>)
        ELSE rv' = rv /\ ret' = Raise("rv_init", arg, r.err)
  /\ UNCHANGED <<baseLen, w, pv>>

RVSetSamples(samples) ==
  /\ rv.made
  /\ LET r == SamplesSetter(rv.dataset, samples)
     IN IF r.ok
        THEN /\ rv' = [rv EXCEPT !.samples = r.val]
             /\ ret' = Return("rv_set_samples", <<samples.kind>>, <<>>)
        ELSE /\ rv' = rv
             /\ ret' = Raise("rv_set_samples", <<samples.kind>>, r.err)
  /\ UNCHANGED <<baseLen, w, pv>>

RVGetSamples ==
  /\ rv.made
  /\ ret' = Return("rv_samples", <<>>, <<rv.samples>>)
  /\ UNCHANGED <<baseLen, w, pv, rv>>

RVGetItem(idx) ==
  /\ rv.made
  /\ LET r == ResampledDataset_getitem(idx)
     IN ret' = IF r.ok THEN Return("rv_getitem", <<idx>>, r.val)
               ELSE Raise("rv_getitem", <<idx>>, r.err)
  /\ UNCHANGED <<baseLen, w, pv, rv>>

RVLen ==
  /\ rv.made
  /\ ret' = Return("rv_len", <<>>, <<ResampledDataset_len>>)
  /\ UNCHANGED <<baseLen, w, pv, rv>>

\* ResampledDataset.c_args
RVCArgs ==
  /\ rv.made
  /\ ret' = Return("rv_c_args", <<>>, <<rv.dataset, Array(<<rv.samples>>)>>)
  /\ UNCHANGED <<baseLen, w, pv, rv>>

RVSetDataset(dataset) ==
  /\ rv.made
  /\ LET r == DatasetSetter(rv.dataset, rv.lock, dataset)
     IN IF r.ok
        THEN /\ rv' = [rv EXCEPT !.dataset = r.val]
             /\ ret' = Return("rv_set", <<dataset>>, <<>>)
        ELSE /\ rv' = rv
             /\ ret' = Raise("rv_set", <<dataset>>, r.err)
  /\ UNCHANGED <<baseLen, w, pv>>

RVGetDataset ==
  /\ rv.made
  /\ ret' = Return("rv_get", <<>>, <<rv.dataset>>)
  /\ UNCHANGED <<baseLen, w, pv, rv>>

----------------------------------------------------------------------------

\* The external datasets have a length that never changes; the two of them
\* are taken of equal length.
Init ==
  /\ \E n \in 0..MaxLen : baseLen = [b \in Bases |-> n]
  /\ w = NoWrapper
  /\ pv = NoPV
  /\ rv = NoRV
  /\ ret = Return("", <<>>, <<>>)

\* A wrapper object on its own.
NextWrapper ==
  \/ \E d \in Bases \cup {NotDataset}, l \in LockArgs : WrapperConstruct(d, l)
  \/ \E d \in Bases \cup {NotDataset} : WrapperSetDataset(d)
  \/ WrapperGetDataset

SpecWrapper == Init /\ [][NextWrapper]_vars

\* A partitioned view over an external dataset.
NextPartition ==
  \/ \E d \in Bases \cup {NotDataset}, p \in PartitionArgs : PVConstruct(d, p)
  \/ \E n \in PartitionNames : PVSetActive(n)
  \/ PVTrain
  \/ PVVal
  \/ PVTest
  \/ PVActivePartition
  \/ PVPartitions
  \/ \E i \in Indices : PVGetItem(i)
  \/ PVLen
  \/ PVCArgs
  \/ \E d \in Bases \cup {NotDataset} : PVSetDataset(d)
  \/ PVGetDataset

SpecPartition == Init /\ [][NextPartition]_vars

\* A resampled view over an external dataset or over a partitioned view,
\* with the calls on the wrapped view that change what it reports.
NextResample ==
  \/ \E p \in WrappedPartitionArgs : PVConstruct("A", p)
  \/ \E n \in {"a", "b", "c"} : PVSetActive(n)
  \/ \E i \in Indices : PVGetItem(i)
  \/ \E d \in Bases \cup {NotDataset} : PVSetDataset(d)
  \/ PVGetDataset
  \/ \E d \in RVDatasetArgs, s \in SampleArgs : RVConstruct(d, s)
  \/ \E s \in SampleArgs : RVSetSamples(s)
  \/ RVGetSamples
  \/ \E i \in Indices : RVGetItem(i)
  \/ RVLen
  \/ RVCArgs
  \/ \E d \in Bases \cup {NotDataset} : RVSetDataset(d)
  \/ RVGetDataset

SpecResample == Init /\ [][NextResample]_vars

----------------------------------------------------------------------------
\* Properties

\* First index of partition k (0-based) in the wrapped dataset:
\* size_0 + ... + size_(k-1).
Start(k) == SumSeq(SubSeq(pv.sizes, 1, k))

SetActiveOps == {"pv_set_active", "pv_train", "pv_val", "pv_test"}

\* C1: with partition k active, item_at(local) for 0 <= local < size_k
\* returns inner.item_at(start_k + local), for k = 0 as well.
C1_TranslationCorrect ==
  (ret.op = "pv_getitem" /\ 0 <= ret.arg[1]
     /\ ret.arg[1] < pv.sizes[pv.active + 1])
  => LET g == DsGetItem(pv.dataset, Start(pv.active) + ret.arg[1])
     IN ret.ok /\ g.ok /\ ret.val = g.val

\* C2: every partitioned view whose construction succeeded stores only
\* sizes > 0.
C2_SizesPositive ==
  pv.made => \A i \in 1..Len(pv.sizes) : pv.sizes[i] > 0

\* C3: a wrapper constructed over A with a lock (given as true, or as a
\* non-boolean) refuses every set_inner and keeps A; constructed unlocked it
\* accepts set_inner(B) for a dataset B and get_inner then returns B.
C3_LockEnforcement ==
  [][/\ (ret'.op = "w_init" /\ ret'.ok)
          => /\ w'.dataset = ret'.arg[1]
             /\ (w'.lock <=> ret'.arg[2] # "False")
     /\ w.made => (w'.lock <=> w.lock)
     /\ (w.made /\ w.lock) => w'.dataset = w.dataset
     /\ (w.made /\ w.lock /\ ret'.op = "w_set") => ~ret'.ok
     /\ (w.made /\ ~w.lock /\ ret'.op = "w_set" /\ ret'.arg[1] \in Bases)
          => ret'.ok /\ w'.dataset = ret'.arg[1]
     /\ ret'.op = "w_get" => ret'.val = <<w.dataset>>
    ]_vars

C3_Witness ==
  /\ w.made /\ w.lock /\ w.dataset = "A"
  /\ ret.op = "w_set" /\ ret.arg = <<"B">> /\ ~ret.ok

\* C4: every entry s of samples satisfies 0 <= s < inner.length(), for the
\* length the wrapped dataset reports now.
C4_SamplesInRange ==
  rv.made => \A i \in 1..Len(rv.samples) :
               0 <= rv.samples[i] /\ rv.samples[i] < DsLen(rv.dataset)

\* C5: on both views item_at(i) with i >= length() raises IndexError and
\* returns no row.
C5_BoundsEnforcement ==
  /\ (ret.op = "pv_getitem" /\ ret.arg[1] >= PartitionedDataset_len)
       => ~ret.ok /\ ret.err = "IndexError" /\ ret.val = <<>>
  /\ (ret.op = "rv_getitem" /\ ret.arg[1] >= ResampledDataset_len)
       => ~ret.ok /\ ret.err = "IndexError" /\ ret.val = <<>>

C5_Witness ==
  /\ pv.made /\ Len(pv.sizes) = 3 /\ pv.active = 1
  /\ ret.op = "pv_getitem" /\ ret.arg = <<PartitionedDataset_len>>
  /\ ~ret.ok

\* C6: constructing a resampled view over an external dataset of any length
\* (0 included) without samples succeeds with samples = [0, ..., length-1],
\* the same length and the same rows.
C6_DefaultIdentity ==
  (ret.op = "rv_init" /\ ret.arg[1] \in Bases /\ ret.arg[2] = "None")
  => /\ ret.ok
     /\ rv.samples = Arange(baseLen[ret.arg[1]])
     /\ ResampledDataset_len = baseLen[ret.arg[1]]
     /\ \A i \in 0..(baseLen[ret.arg[1]] - 1) :
          ResampledDataset_getitem(i) = BaseGetItem(ret.arg[1], i)

\* C7: set_active_partition (and the train/val/test shortcuts) fails on an
\* unknown name and leaves the active index alone, selects the position of a
\* known name, and no call changes names, sizes, offsets or the wrapped
\* dataset; the active index always stays within the names.
C7_ActivePartitionFrame ==
  [][/\ pv'.made => 0 <= pv'.active /\ pv'.active < Len(pv'.names)
     /\ pv.made
          => /\ pv'.names = pv.names
             /\ pv'.sizes = pv.sizes
             /\ pv'.offsets = pv.offsets
             /\ pv'.dataset = pv.dataset
             /\ IF ret'.op \in SetActiveOps
                THEN IF InList(pv.names, ret'.arg[1])
                     THEN ret'.ok /\ pv.names[pv'.active + 1] = ret'.arg[1]
                     ELSE ~ret'.ok /\ pv'.active = pv.active
                ELSE pv'.active = pv.active
    ]_vars

C7_Witness ==
  /\ pv.made /\ pv.names = <<"val", "train">> /\ pv.active = 0
  /\ ret.op = "pv_val" /\ ret.ok

\* C8: constructing a view from the (dataset, partitions), resp. (dataset,
\* samples), of a view's c_args succeeds and gives the same wrapped dataset,
\* names and sizes, resp. samples.
C8_RoundTrip ==
  /\ ret.op = "pv_c_args"
       => LET r == PartitionedDataset_init(ret.val[1], ret.val[2])
          IN /\ r.ok
             /\ r.val.dataset = pv.dataset
             /\ r.val.names = pv.names
             /\ r.val.sizes = pv.sizes
  /\ ret.op = "rv_c_args"
       => LET r == ResampledDataset_init(ret.val[1], ret.val[2])
          IN /\ r.ok
             /\ r.val.dataset = rv.dataset
             /\ r.val.samples = rv.samples

\* C9: with partition k active, item_at(local) for any integer local fails
\* or returns inner.item_at(g) for a g in [start_k, start_k + size_k).
C9_PartitionIsolation ==
  (ret.op = "pv_getitem" /\ ret.ok)
  => \E g \in Start(pv.active)..(Start(pv.active) + PartitionedDataset_len - 1) :
       ret.val = DsGetItem(pv.dataset, g).val

\* C10: both views are constructed locked: every set_inner on them fails and
\* changes nothing, and get_inner returns the dataset given at construction.
C10_ViewsLocked ==
  [][/\ (ret'.op = "pv_init" /\ ret'.ok)
          => pv'.lock /\ pv'.dataset = ret'.arg[1]
     /\ (ret'.op = "rv_init" /\ ret'.ok)
          => rv'.lock /\ rv'.dataset = ret'.arg[1]
     /\ pv.made => pv'.lock /\ pv'.dataset = pv.dataset
     /\ rv.made => rv'.lock /\ rv'.dataset = rv.dataset
     /\ (pv.made /\ ret'.op = "pv_set") => ~ret'.ok /\ pv' = pv /\ rv' = rv
     /\ (rv.made /\ ret'.op = "rv_set") => ~ret'.ok /\ pv' = pv /\ rv' = rv
     /\ ret'.op = "pv_get" => ret'.val = <<pv.dataset>>
     /\ ret'.op = "rv_get" => ret'.val = <<rv.dataset>>
    ]_vars

C10_Witness ==
  /\ rv.made /\ rv.dataset = "pv" /\ pv.made /\ pv.dataset = "A"
  /\ ret.op = "rv_set" /\ ret.arg = <<"B">> /\ ~ret.ok

====
